---- MODULE Spec2Model ----
(***************************************************************************)
(* Model of iss_tracker.py: the ISSTracker class over a Redis store (one   *)
(* hash per epoch under iss_data:{epoch}, one list iss_epochs) and the     *)
(* five Flask routes.                                                      *)
(*                                                                         *)
(* Abstractions:                                                           *)
(*  - an epoch string "YYYY-DDDTHH:MM:..." is the tuple <<DDD, HH, MM>>;   *)
(*    strptime is the operator strptime below (minutes since the start of  *)
(*    the year);                                                           *)
(*  - the text of a numeric XML field is a string of NumText; float() is   *)
(*    the operator float below and raises ValueError on any other text;    *)
(*  - the Redis client returns what the test suite's mock returns (str     *)
(*    keys and values);                                                    *)
(*  - a Python call returns a Result: Ok(v), None_, or Raise(exception).   *)
(***************************************************************************)
EXTENDS Integers, Sequences, FiniteSets, TLC

\* ------------------------------------------------------------------ bounds
MaxFeedLen == 2      \* state vectors in one feed document
MaxIndex   == 4      \* length of the list iss_epochs
NumLoaders == 2      \* requests that run read_data at the same time

\* ----------------------------------------------------------- Python values
None_     == [kind |-> "none"]
Ok(v)     == [kind |-> "ok", val |-> v]
Raise(e)  == [kind |-> "raise", exc |-> e]

\* float(text): the texts of NumText parse, every other text raises ValueError
NumText   == {"0", "3", "4"}
float(t)  == CASE t = "0" -> 0 [] t = "3" -> 3 [] t = "4" -> 4

\* ------------------------------------------------------------------- epochs
E1 == <<79, 12, 0>>       \* 2024-079T12:00:00.000Z
E2 == <<79, 13, 0>>       \* 2024-079T13:00:00.000Z
E3 == <<79, 14, 0>>       \* an epoch no feed holds
FeedEpochs == {E1, E2}
AnyEpoch   == {E1, E2, E3}

\* datetime.strptime(epoch, "%Y-%jT%H:%M:%S.%fZ"), in minutes of the year
strptime(e) == ((e[1] - 1) * 24 + e[2]) * 60 + e[3]

\* ------------------------------------------------------------ feed document
\* <stateVector> elements: EPOCH and the six numeric fields as text
StateVector(e, p, v) == [EPOCH |-> e, X |-> p[1], Y |-> p[2], Z |-> p[3],
                         X_DOT |-> v[1], Y_DOT |-> v[2], Z_DOT |-> v[3]]
StateVectorElems ==
    { StateVector(E1, <<"3", "4", "0">>, <<"3", "4", "0">>),
      StateVector(E2, <<"0", "3", "4">>, <<"0", "3", "4">>),
      StateVector(E2, <<"0", "0", "0">>, <<"3", "4", "0">>),     \* at the origin
      StateVector(E1, <<"abc", "4", "0">>, <<"3", "4", "0">>) }  \* X is not a number

SeqsUpTo(S, n) == UNION { [1..k -> S] : k \in 0..n }

\* what requests.get(url) and ET.fromstring(response.text) meet: the fetch
\* fails, the body is not well-formed XML, or the document parses
FeedStatus == {"ok", "unreachable", "not_xml"}
Feeds == [status : FeedStatus, vectors : SeqsUpTo(StateVectorElems, MaxFeedLen)]

\* ------------------------------------------------------------------- state
VARIABLES
    iss_data,     \* Redis hashes iss_data:{epoch}: function epoch -> mapping
    iss_epochs,   \* Redis list iss_epochs
    feed,         \* the document currently served at self.url
    last,         \* the last event: operation, arguments, result, response
    loads         \* per concurrent request: where it stands in its read_data

vars == <<iss_data, iss_epochs, feed, last, loads>>

Store(d, i) == [data |-> d, index |-> i]
NoHashes    == [k \in {} |-> k]

\* ------------------------------------------------------------ Redis client
hset(d, e, mapping) == [k \in (DOMAIN d) \cup {e} |-> IF k = e THEN mapping ELSE d[k]]
\* variant: an epoch already in the list is not appended again
rpush_dedup(i, e)   == IF \E k \in DOMAIN i : i[k] = e THEN i ELSE Append(i, e)
rpush(i, e)         == Append(i, e)
hgetall(d, e)       == IF e \in DOMAIN d THEN d[e] ELSE [k \in {} |-> k]
lrange(i)           == i

\* ---------------------------------------------------------------- read_data
Numeric(sv) == /\ sv.X \in NumText /\ sv.Y \in NumText /\ sv.Z \in NumText
               /\ sv.X_DOT \in NumText /\ sv.Y_DOT \in NumText /\ sv.Z_DOT \in NumText

Mapping(sv) == [epoch |-> sv.EPOCH,
                x |-> float(sv.X), y |-> float(sv.Y), z |-> float(sv.Z),
                x_dot |-> float(sv.X_DOT), y_dot |-> float(sv.Y_DOT),
                z_dot |-> float(sv.Z_DOT)]

\* the for loop of read_data from element k on; a non-numeric field raises
\* before the hset of its record, after the hset/rpush of the earlier ones
RECURSIVE LoadFrom(_, _, _)
LoadFrom(s, vs, k) ==
    IF k > Len(vs) THEN [store |-> s, ret |-> None_]
    ELSE IF ~Numeric(vs[k]) THEN [store |-> s, ret |-> Raise("ValueError")]
    ELSE LoadFrom(Store(hset(s.data, vs[k].EPOCH, Mapping(vs[k])),
                        rpush(s.index, vs[k].EPOCH)), vs, k + 1)

read_data(s, doc) ==
    IF doc.status = "unreachable" THEN [store |-> s, ret |-> Raise("ConnectionError")]
    ELSE IF doc.status = "not_xml" THEN [store |-> s, ret |-> Raise("ParseError")]
    ELSE LoadFrom(s, doc.vectors, 1)

\* ------------------------------------------------------------ Python lists
Max2(a, b) == IF a > b THEN a ELSE b
Min2(a, b) == IF a < b THEN a ELSE b
Abs(a)     == IF a < 0 THEN -a ELSE a

\* seq[a:] and seq[:b] with Python's clamping of the bounds
SliceFrom(seq, a) ==
    LET n     == Len(seq)
        start == IF a < 0 THEN Max2(n + a, 0) ELSE Min2(a, n)
    IN  SubSeq(seq, start + 1, n)
SliceTo(seq, b) ==
    LET n    == Len(seq)
        stop == IF b < 0 THEN Max2(n + b, 0) ELSE Min2(b, n)
    IN  SubSeq(seq, 1, stop)

\* min(list) and list.index(value), 1-based here
ListMin(seq)      == CHOOSE m \in { seq[i] : i \in DOMAIN seq } :
                        \A i \in DOMAIN seq : m <= seq[i]
ListIndex(seq, v) == CHOOSE i \in DOMAIN seq :
                        /\ seq[i] = v
                        /\ \A j \in 1..(i - 1) : seq[j] # v

\* math.sqrt on the integers of the model (floor of the root)
sqrt(n) == CHOOSE r \in 0..n : r * r <= n /\ n < (r + 1) * (r + 1)

\* ------------------------------------------------------------- ISSTracker
\* A method is written as its first call followed by the rest of its body
\* (X_rest), which receives what that call returned.
epochs_rest(r) ==
    IF r.ret.kind = "raise" THEN r
    ELSE [store |-> r.store, ret |-> Ok(lrange(r.store.index))]
epochs(s, doc) == epochs_rest(read_data(s, doc))

\* variant: the page is cut before the offset is applied (epochs[:limit][offset:])
epochs_limited_rest_limit_first(r, limit, offset) ==
    IF r.ret.kind = "raise" THEN r
    ELSE [store |-> r.store,
          ret |-> Ok(SliceFrom(SliceTo(lrange(r.store.index), limit), offset))]
epochs_limited_rest(r, limit, offset) ==
    IF r.ret.kind = "raise" THEN r
    ELSE [store |-> r.store,
          ret |-> Ok(SliceTo(SliceFrom(lrange(r.store.index), offset), limit))]
epochs_limited(s, doc, limit, offset) ==
    epochs_limited_rest(read_data(s, doc), limit, offset)

state_vector(data) ==
    [epoch |-> data.epoch,
     position |-> [x |-> data.x, y |-> data.y, z |-> data.z],
     velocity |-> [x_dot |-> data.x_dot, y_dot |-> data.y_dot, z_dot |-> data.z_dot]]
\* variant: no "if not data" test, so data['epoch'] raises on the empty hash
get_state_vector_epoch_rest_unchecked(r, epoch) ==
    IF r.ret.kind = "raise" THEN r
    ELSE IF DOMAIN hgetall(r.store.data, epoch) = {}
    THEN [store |-> r.store, ret |-> Raise("KeyError")]
    ELSE [store |-> r.store, ret |-> Ok(state_vector(hgetall(r.store.data, epoch)))]
get_state_vector_epoch_rest(r, epoch) ==
    IF r.ret.kind = "raise" THEN r
    ELSE IF DOMAIN hgetall(r.store.data, epoch) = {}
    THEN [store |-> r.store, ret |-> None_]
    ELSE [store |-> r.store, ret |-> Ok(state_vector(hgetall(r.store.data, epoch)))]
get_state_vector_epoch(s, doc, epoch) ==
    get_state_vector_epoch_rest(read_data(s, doc), epoch)

calculate_speed(velocity) ==
    sqrt(velocity.x_dot * velocity.x_dot + velocity.y_dot * velocity.y_dot
            + velocity.z_dot * velocity.z_dot)

get_speed_epoch_rest(sv, epoch) ==
    IF sv.ret.kind = "ok"
    THEN [store |-> sv.store,
          ret |-> Ok([epoch |-> epoch, speed |-> calculate_speed(sv.ret.val.velocity)])]
    ELSE sv
get_speed_epoch(s, doc, epoch) ==
    get_speed_epoch_rest(get_state_vector_epoch(s, doc, epoch), epoch)

\* self.geolocator.reverse(...): an address, no match, or an exception
GeoOutcomes == {"match", "nomatch", "error"}
reverse(geo) == CASE geo = "match"   -> Ok([address |-> "Test Location, Earth"])
                  [] geo = "nomatch" -> None_
                  [] geo = "error"   -> Raise("GeocoderServiceError")

\* the try/except around the geocoder call
geoposition_of(location) ==
    IF location.kind = "raise" THEN "Location data unavalible"
    ELSE IF location.kind = "ok" THEN location.val.address
    ELSE "Over water or uninhabited area"
geoposition(geo) == geoposition_of(reverse(geo))

earth_radius == 6371

\* variant: the geocoder call is not inside a try/except
location_of_unguarded(position, r, epoch, geo) ==
    IF r = 0 THEN Raise("ZeroDivisionError")
    ELSE IF reverse(geo).kind = "raise" THEN reverse(geo)
    ELSE Ok([epoch |-> epoch,
             latitude |-> [asin |-> <<position.z, r>>],
             longitude |-> [atan2 |-> <<position.y, position.x>>],
             altitude |-> r - earth_radius,
             geoposition |-> geoposition(geo)])
\* the conversion of get_location_epoch for a radius r; z / r raises at r = 0
location_of(position, r, epoch, geo) ==
    IF r = 0 THEN Raise("ZeroDivisionError")
    ELSE Ok([epoch |-> epoch,
             latitude |-> [asin |-> <<position.z, r>>],
             longitude |-> [atan2 |-> <<position.y, position.x>>],
             altitude |-> r - earth_radius,
             geoposition |-> geoposition(geo)])
radius(position) ==
    sqrt(position.x * position.x + position.y * position.y + position.z * position.z)

get_location_epoch_rest(sv, epoch, geo) ==
    IF sv.ret.kind # "ok" THEN sv
    ELSE [store |-> sv.store,
          ret |-> location_of(sv.ret.val.position, radius(sv.ret.val.position), epoch, geo)]
get_location_epoch(s, doc, epoch, geo) ==
    get_location_epoch_rest(get_state_vector_epoch(s, doc, epoch), epoch, geo)

\* timediffdata of print_closest_epoch
timediff(es, now) == [i \in DOMAIN es |-> Abs(strptime(es[i]) - now)]

\* epochs[timediffdata.index(min(timediffdata))]
\* variant: the last position holding the minimum is taken
ListIndexLast(seq, v) == CHOOSE i \in DOMAIN seq :
                            /\ seq[i] = v
                            /\ \A j \in (i + 1)..Len(seq) : seq[j] # v
closest_of_last(es, timediffdata) == es[ListIndexLast(timediffdata, ListMin(timediffdata))]
closest_of(es, timediffdata) == es[ListIndex(timediffdata, ListMin(timediffdata))]
closest_epoch(es, now)       == closest_of(es, timediff(es, now))

\* variant: no "if not epochs" test, so min([]) raises
print_closest_epoch_rest_unchecked(r, doc, now) ==
    IF r.ret.kind = "raise" THEN r
    ELSE IF Len(r.ret.val) = 0 THEN [store |-> r.store, ret |-> Raise("ValueError")]
    ELSE get_state_vector_epoch(r.store, doc, closest_epoch(r.ret.val, now))
print_closest_epoch_rest(r, doc, now) ==
    IF r.ret.kind = "raise" THEN r
    ELSE IF Len(r.ret.val) = 0 THEN [store |-> r.store, ret |-> None_]
    ELSE get_state_vector_epoch(r.store, doc, closest_epoch(r.ret.val, now))
print_closest_epoch(s, doc, now) == print_closest_epoch_rest(epochs(s, doc), doc, now)

\* get_now after get_location_epoch returned
get_now_rest3(epoch, speed, location) ==
    IF location.ret.kind = "raise" THEN location
    ELSE IF location.ret.kind = "none"    \* None['latitude']
    THEN [store |-> location.store, ret |-> Raise("TypeError")]
    ELSE [store |-> location.store,
          ret |-> Ok([epoch |-> epoch,
                      speed |-> speed.ret.val.speed,
                      latitude |-> location.ret.val.latitude,
                      longitude |-> location.ret.val.longitude,
                      altitude |-> location.ret.val.altitude,
                      geoposition |-> location.ret.val.geoposition])]
\* get_now after get_speed_epoch returned
get_now_rest2(epoch, speed, doc, geo) ==
    IF speed.ret.kind = "raise" THEN speed
    ELSE IF speed.ret.kind = "none"    \* None['speed']
    THEN [store |-> speed.store, ret |-> Raise("TypeError")]
    ELSE get_now_rest3(epoch, speed, get_location_epoch(speed.store, doc, epoch, geo))
\* get_now after print_closest_epoch returned
get_now_rest(closest, doc, geo) ==
    IF closest.ret.kind # "ok" THEN closest
    ELSE get_now_rest2(closest.ret.val.epoch,
                       get_speed_epoch(closest.store, doc, closest.ret.val.epoch),
                       doc, geo)
get_now(s, doc, now, geo) == get_now_rest(print_closest_epoch(s, doc, now), doc, geo)

\* ------------------------------------------------------------ Flask routes
NoResp == [status |-> 0]
Resp(status, body) == [status |-> status, body |-> body]

\* except Exception as e: return {"error": str(e)}, 500
\* variant: no except clause, the exception leaves the handler
except_Exception_missing(r, resp) ==
    IF r.ret.kind = "raise"
    THEN [store |-> r.store, ret |-> r.ret, resp |-> [status |-> -1, unhandled |-> r.ret.exc]]
    ELSE [store |-> r.store, ret |-> r.ret, resp |-> resp]
except_Exception(r, resp) ==
    IF r.ret.kind = "raise"
    THEN [store |-> r.store, ret |-> r.ret, resp |-> Resp(500, [error |-> r.ret.exc])]
    ELSE [store |-> r.store, ret |-> r.ret, resp |-> resp]

\* request.args.get(name): None when the parameter is absent, else its text
Absent   == [present |-> FALSE, text |-> ""]
Arg(t)   == [present |-> TRUE, text |-> t]
IntText  == {"-1", "0", "1", "2"}
ArgTexts == IntText \cup {"abc"}
QueryArgs == {Absent} \cup { Arg(t) : t \in ArgTexts }

\* int(text): the texts of IntText parse, every other text raises ValueError
int(t) == CASE t = "-1" -> -1 [] t = "0" -> 0 [] t = "1" -> 1 [] t = "2" -> 2

\* the inner try of epoch_limit_data: the 400 response, or status 0 when the
\* two parameters pass
validate(limit, offset) ==
    IF limit.text \notin IntText \/ offset.text \notin IntText
    THEN Resp(400, [error |-> "Limit and offset must be integers"])
    ELSE IF int(limit.text) < 0 \/ int(offset.text) < 0
    THEN Resp(400, [error |-> "Limit and offset must be non-negative integers"])
    ELSE NoResp

\* return <list> at the end of the try
list_response(r) == except_Exception(r, Resp(200, r.ret))

\* variant: the data is loaded before the parameters are rejected
epoch_limit_data_checked_load_first(s, doc, limit, offset, bad) ==
    IF bad.status # 0
    THEN [store |-> read_data(s, doc).store, ret |-> read_data(s, doc).ret, resp |-> bad]
    ELSE list_response(epochs_limited(s, doc, int(limit.text), int(offset.text)))
epoch_limit_data_checked(s, doc, limit, offset, bad) ==
    IF bad.status # 0
    THEN [store |-> s, ret |-> None_, resp |-> bad]
    ELSE list_response(epochs_limited(s, doc, int(limit.text), int(offset.text)))

epoch_limit_data(s, doc, limit, offset) ==
    IF limit.present /\ offset.present
    THEN epoch_limit_data_checked(s, doc, limit, offset, validate(limit, offset))
    ELSE list_response(epochs(s, doc))

\* the shared body of the three /epochs/<epoch>... routes
lookup_response(r, epoch) ==
    IF r.ret.kind = "none"
    THEN except_Exception(r, Resp(404, [error |-> <<"Epoch not found", epoch>>]))
    ELSE except_Exception(r, Resp(200, r.ret))

epoch_data(s, doc, epoch)  == lookup_response(get_state_vector_epoch(s, doc, epoch), epoch)
epoch_speed(s, doc, epoch) == lookup_response(get_speed_epoch(s, doc, epoch), epoch)
epoch_location(s, doc, epoch, geo) ==
    lookup_response(get_location_epoch(s, doc, epoch, geo), epoch)

now_response(r) ==
    IF r.ret.kind = "none"
    THEN except_Exception(r, Resp(500, [error |-> "Could not determine current ISS data"]))
    ELSE except_Exception(r, Resp(200, r.ret))
now_data(s, doc, now, geo) == now_response(get_now(s, doc, now, geo))

\* ------------------------------------------------------------------ events
Event(op, args, ret, resp) == [op |-> op, args |-> args, ret |-> ret, resp |-> resp]

Cur == Store(iss_data, iss_epochs)

\* the effect of a call on the store, within the bound on the index
Commit(r, op, args, resp) ==
    /\ Len(r.store.index) <= MaxIndex
    /\ iss_data' = r.store.data
    /\ iss_epochs' = r.store.index
    /\ last' = Event(op, args, r.ret, resp)
    /\ UNCHANGED <<feed, loads>>

\* a request's place in read_data: not in it, or about to hset / rpush the
\* k-th state vector, or past the loop and about to hgetall
Loaders == 1..NumLoaders
Idle    == [pc |-> "idle", k |-> 0]
At(pc, k) == [pc |-> pc, k |-> k]

Init ==
    /\ iss_data = NoHashes
    /\ iss_epochs = <<>>
    /\ feed \in Feeds
    /\ last = Event("init", <<>>, None_, NoResp)
    /\ loads = [p \in Loaders |-> Idle]

\* the upstream becomes unreachable, serves a broken body, or recovers
UpstreamUpdate ==
    /\ \E st \in FeedStatus \ {feed.status} : feed' = [feed EXCEPT !.status = st]
    /\ last' = Event("upstream", <<>>, None_, NoResp)
    /\ UNCHANGED <<iss_data, iss_epochs, loads>>

\* inputs of the operations
Nows == { strptime(E1) - 60, strptime(E1) + 10, strptime(E1) + 30,
          strptime(E2) + 60 }    \* datetime.now(), in minutes of the year

\* tracker.read_data() (start-up, analyze_data)
ReadData == Commit(read_data(Cur, feed), "read_data", <<>>, NoResp)

\* tracker.print_closest_epoch() (analyze_data)
PrintClosestEpoch ==
    \E now \in Nows :
        Commit(print_closest_epoch(Cur, feed, now), "print_closest_epoch",
               [now |-> now], NoResp)

\* the five routes
Route(r, op, args) == Commit(r, op, args, r.resp)

GetEpochs ==
    \E limit \in QueryArgs, offset \in QueryArgs :
        Route(epoch_limit_data(Cur, feed, limit, offset), "GET /epochs",
              [limit |-> limit, offset |-> offset])

GetEpoch ==
    \E epoch \in AnyEpoch :
        Route(epoch_data(Cur, feed, epoch), "GET /epochs/<epoch>", [epoch |-> epoch])

GetEpochSpeed ==
    \E epoch \in AnyEpoch :
        Route(epoch_speed(Cur, feed, epoch), "GET /epochs/<epoch>/speed",
              [epoch |-> epoch])

GetEpochLocation ==
    \E epoch \in AnyEpoch, geo \in GeoOutcomes :
        Route(epoch_location(Cur, feed, epoch, geo), "GET /epochs/<epoch>/location",
              [epoch |-> epoch, geo |-> geo])

GetNowRoute ==
    \E now \in Nows, geo \in GeoOutcomes :
        Route(now_data(Cur, feed, now, geo), "GET /now", [now |-> now, geo |-> geo])

Next ==
    \/ UpstreamUpdate
    \/ ReadData
    \/ PrintClosestEpoch
    \/ GetEpochs
    \/ GetEpoch
    \/ GetEpochSpeed
    \/ GetEpochLocation
    \/ GetNowRoute

Spec == Init /\ [][Next]_vars

\* ------------------------------------------- read_data, command by command
\* Requests run get_state_vector_epoch at the same time; each Redis command
\* of its read_data is a step, and the commands of the requests interleave.

\* variant: the epoch is appended before its record is written
load_step_index_first(s, sv, pc) ==
    IF pc = "hset" THEN Store(s.data, rpush(s.index, sv.EPOCH))
    ELSE Store(hset(s.data, sv.EPOCH, Mapping(sv)), s.index)
\* the two commands of one pass of the loop of read_data
load_step(s, sv, pc) ==
    IF pc = "hset" THEN Store(hset(s.data, sv.EPOCH, Mapping(sv)), s.index)
    ELSE Store(s.data, rpush(s.index, sv.EPOCH))

\* where the request goes after the k-th pass
after_pass(doc, k) == IF k < Len(doc.vectors) THEN At("hset", k + 1) ELSE At("hgetall", 0)

StepStore(s) ==
    /\ Len(s.index) <= MaxIndex
    /\ iss_data' = s.data
    /\ iss_epochs' = s.index

\* requests.get and ET.fromstring
Fetch(p) ==
    /\ loads[p].pc = "idle"
    /\ IF feed.status = "ok"
       THEN /\ loads' = [loads EXCEPT ![p] = after_pass(feed, 0)]
            /\ last' = Event("fetch", <<>>, None_, NoResp)
       ELSE /\ loads' = loads
            /\ last' = Event("fetch", <<>>, read_data(Cur, feed).ret, NoResp)
    /\ UNCHANGED <<iss_data, iss_epochs, feed>>

\* the floats of the k-th state vector, then redis_client.hset
Hset(p) ==
    /\ loads[p].pc = "hset"
    /\ IF Numeric(feed.vectors[loads[p].k])
       THEN /\ StepStore(load_step(Cur, feed.vectors[loads[p].k], "hset"))
            /\ loads' = [loads EXCEPT ![p] = At("rpush", loads[p].k)]
            /\ last' = Event("hset", <<>>, None_, NoResp)
       ELSE /\ loads' = [loads EXCEPT ![p] = Idle]
            /\ last' = Event("hset", <<>>, Raise("ValueError"), NoResp)
            /\ UNCHANGED <<iss_data, iss_epochs>>
    /\ UNCHANGED feed

\* redis_client.rpush of the k-th epoch
Rpush(p) ==
    /\ loads[p].pc = "rpush"
    /\ StepStore(load_step(Cur, feed.vectors[loads[p].k], "rpush"))
    /\ loads' = [loads EXCEPT ![p] = after_pass(feed, loads[p].k)]
    /\ last' = Event("rpush", <<>>, None_, NoResp)
    /\ UNCHANGED feed

\* redis_client.hgetall and the rest of get_state_vector_epoch
Hgetall(p) ==
    /\ loads[p].pc = "hgetall"
    /\ \E epoch \in AnyEpoch :
          last' = Event("get_state_vector_epoch", [epoch |-> epoch],
                        get_state_vector_epoch_rest([store |-> Cur, ret |-> None_], epoch).ret,
                        NoResp)
    /\ loads' = [loads EXCEPT ![p] = Idle]
    /\ UNCHANGED <<iss_data, iss_epochs, feed>>

LoadNext ==
    \/ UpstreamUpdate
    \/ \E p \in Loaders : Fetch(p)
    \/ \E p \in Loaders : Hset(p)
    \/ \E p \in Loaders : Rpush(p)
    \/ \E p \in Loaders : Hgetall(p)

LoadSpec == Init /\ [][LoadNext]_vars

\* ================================================================== claims
IsRoute(op)  == op \in {"GET /epochs", "GET /epochs/<epoch>", "GET /epochs/<epoch>/speed",
                        "GET /epochs/<epoch>/location", "GET /now"}
IsLookup(op) == op \in {"GET /epochs/<epoch>", "GET /epochs/<epoch>/speed",
                        "GET /epochs/<epoch>/location"}

\* the EPOCH texts of a document, in document order
FeedEpochSeq(doc) == [i \in DOMAIN doc.vectors |-> doc.vectors[i].EPOCH]
DistinctEpochs(doc) ==
    \A i, j \in DOMAIN doc.vectors : i # j => doc.vectors[i].EPOCH # doc.vectors[j].EPOCH
\* the document can be fetched, parses, and every numeric field is a number
LoadSucceeds(doc) ==
    /\ doc.status = "ok"
    /\ \A i \in DOMAIN doc.vectors : Numeric(doc.vectors[i])

\* C1: after a feed of n state vectors with distinct epochs has been loaded
\* into an empty store, GET /epochs without parameters (epochs()) returns
\* exactly those n epochs, each once, in document order.
C1_EpochsReturnsFeedOnce ==
    [][ ( /\ last.op = "read_data" /\ last.ret.kind = "none"
          /\ DistinctEpochs(feed)
          /\ iss_epochs = FeedEpochSeq(feed)
          /\ last'.op = "GET /epochs"
          /\ ~last'.args.limit.present /\ ~last'.args.offset.present
          /\ last'.ret.kind = "ok" )
        => last'.ret.val = FeedEpochSeq(feed) ]_vars

\* C2 (as stated): a lookup of an epoch with no stored record returns None
\* and never raises; the three routes answer 404.
C2_UnknownEpochNeverRaises ==
    ( /\ IsLookup(last.op)
      /\ last.args.epoch \notin DOMAIN iss_data )
    => /\ last.ret = None_
       /\ last.resp.status = 404

\* C2 (amended): a lookup of an epoch with no stored record returns None and
\* the route answers 404 when the feed load the lookup performs succeeds; when
\* that load fails the exception leaves the method and the route answers 500.
C2_UnknownEpochNotFoundOrLoadError ==
    ( /\ IsLookup(last.op)
      /\ last.args.epoch \notin DOMAIN iss_data )
    => IF LoadSucceeds(feed)
       THEN /\ last.ret = None_
            /\ last.resp.status = 404
       ELSE /\ last.ret.kind = "raise"
            /\ last.ret.exc \in {"ConnectionError", "ParseError", "ValueError"}
            /\ last.resp.status = 500

C2_Witness ==
    /\ last.op = "GET /epochs/<epoch>/speed"
    /\ last.args.epoch = E3
    /\ Len(iss_epochs) > 0
    /\ last.ret = None_
    /\ last.resp.status = 404

\* C3: GET /epochs answers 400 whenever limit or offset is present and is not
\* a non-negative integer (also when only one of the two is supplied), and
\* answers 200 only when no supplied parameter is invalid.
InvalidArg(a) == a.present /\ (a.text \notin IntText \/ int(a.text) < 0)
C3_InvalidParameterIs400 ==
    last.op = "GET /epochs"
    => /\ (InvalidArg(last.args.limit) \/ InvalidArg(last.args.offset))
            => last.resp.status = 400
       /\ last.resp.status = 200
            => (~InvalidArg(last.args.limit) /\ ~InvalidArg(last.args.offset))

C5_EmptyStoreNowIs500 ==
    ( /\ last.op = "GET /now"
      /\ feed.status = "ok" /\ Len(feed.vectors) = 0
      /\ Len(iss_epochs) = 0 )
    => /\ last.ret = None_
       /\ last.resp = Resp(500, [error |-> "Could not determine current ISS data"])

C5_Witness ==
    /\ last.op = "GET /now"
    /\ feed.status = "ok" /\ Len(feed.vectors) = 0
    /\ Len(iss_epochs) = 0
    /\ last.resp.status = 500

\* C6: on each of the five routes a failed feed load, or any other exception
\* raised while the request is handled, gives the response 500 with
\* {"error": message}; every request ends in a response.
C6_ExceptionsBecome500 ==
    IsRoute(last.op)
    => /\ last.resp.status \in {200, 400, 404, 500}
       /\ last.ret.kind = "raise" => last.resp = Resp(500, [error |-> last.ret.exc])
       /\ ~LoadSucceeds(feed) /\ last.resp.status # 400 => last.resp.status = 500

C6_Witness ==
    /\ last.op = "GET /now"
    /\ feed.status = "not_xml"
    /\ last.ret = Raise("ParseError")
    /\ last.resp = Resp(500, [error |-> "ParseError"])

\* C7: a load that fails on a non-numeric field stores nothing: records and
\* index are as before the call.
C7_FailedLoadStoresNothing ==
    [][ (last'.op = "read_data" /\ last'.ret = Raise("ValueError"))
        => (iss_data' = iss_data /\ iss_epochs' = iss_epochs) ]_vars

\* C8: load() is idempotent: with the feed unchanged, a second load leaves
\* records and index as the first load left them.
C8_LoadIdempotent ==
    [][ ( /\ last.op = "read_data" /\ last.ret.kind = "none"
          /\ last'.op = "read_data" /\ last'.ret.kind = "none"
          /\ feed' = feed )
        => (iss_data' = iss_data /\ iss_epochs' = iss_epochs) ]_vars

\* the geoposition get_location_epoch is to report for a geocoder outcome
ExpectedGeoposition(geo) ==
    CASE geo = "match"   -> "Test Location, Earth"
      [] geo = "nomatch" -> "Over water or uninhabited area"
      [] geo = "error"   -> "Location data unavalible"

\* C9 (as stated): for every epoch with a stored record get_location_epoch
\* returns a location whatever the geocoder does, and the route answers 200.
C9_StoredEpochAlwaysLocated ==
    ( /\ last.op = "GET /epochs/<epoch>/location"
      /\ last.args.epoch \in DOMAIN iss_data )
    => /\ last.ret.kind = "ok"
       /\ last.ret.val.geoposition = ExpectedGeoposition(last.args.geo)
       /\ last.resp.status = 200

AtOrigin(rec) == rec.x = 0 /\ rec.y = 0 /\ rec.z = 0

\* C9 (amended): for every epoch with a stored record whose position is not
\* the origin, when the feed load the call performs succeeds,
\* get_location_epoch returns a location whatever the geocoder does
\* (the address on a match, one placeholder on no match, another when the
\* geocoder raises) and the route answers 200; a geocoder error never leaves
\* get_location_epoch.
C9_LocatedWhateverGeocoderDoes ==
    last.op = "GET /epochs/<epoch>/location"
    => /\ ( /\ last.args.epoch \in DOMAIN iss_data
            /\ LoadSucceeds(feed)
            /\ ~AtOrigin(iss_data[last.args.epoch]) )
          => /\ last.ret.kind = "ok"
             /\ last.ret.val.epoch = last.args.epoch
             /\ last.ret.val.geoposition = ExpectedGeoposition(last.args.geo)
             /\ last.resp = Resp(200, last.ret)
       /\ last.ret.kind = "raise" => last.ret.exc # "GeocoderServiceError"

C9_Witness ==
    /\ last.op = "GET /epochs/<epoch>/location"
    /\ last.args.geo = "error"
    /\ last.ret.kind = "ok"
    /\ last.ret.val.geoposition = "Location data unavalible"
    /\ last.resp.status = 200

\* C10: over a non-empty index print_closest_epoch returns the state vector
\* of the epoch at the first index position whose distance from now is
\* minimal over all indexed epochs.
Distance(e, now) == Abs(strptime(e) - now)
C10_ClosestIsFirstMinimum ==
    last.op = "print_closest_epoch"
    => /\ (LoadSucceeds(feed) /\ Len(iss_epochs) > 0) => last.ret.kind = "ok"
       /\ last.ret.kind = "ok"
            => \E i \in DOMAIN iss_epochs :
                 /\ \A j \in DOMAIN iss_epochs :
                       Distance(iss_epochs[i], last.args.now)
                            <= Distance(iss_epochs[j], last.args.now)
                 /\ \A j \in 1..(i - 1) :
                       Distance(iss_epochs[j], last.args.now)
                            > Distance(iss_epochs[i], last.args.now)
                 /\ last.ret.val = state_vector(iss_data[iss_epochs[i]])
                 /\ last.ret.val.epoch = iss_epochs[i]

\* two different epochs are equally close and the later one comes first
C10_Witness ==
    /\ last.op = "print_closest_epoch"
    /\ last.ret.kind = "ok"
    /\ last.args.now = strptime(E1) + 30
    /\ Len(iss_epochs) > 1
    /\ iss_epochs[1] = E2 /\ iss_epochs[2] = E1
    /\ last.ret.val.epoch = E2

\* ------------------------------------------------------------------- C11
IsPrefix(a, b) == Len(a) <= Len(b) /\ SubSeq(b, 1, Len(a)) = a
RECURSIVE Repeat(_, _)
Repeat(seq, k) == IF k = 0 THEN <<>> ELSE Repeat(seq, k - 1) \o seq
EpochsOf(doc)  == { doc.vectors[i].EPOCH : i \in DOMAIN doc.vectors }
\* the last <stateVector> of the document with the given EPOCH
LastVectorFor(doc, e) ==
    doc.vectors[CHOOSE i \in DOMAIN doc.vectors :
                    /\ doc.vectors[i].EPOCH = e
                    /\ \A j \in (i + 1)..Len(doc.vectors) : doc.vectors[j].EPOCH # e]
AllNumeric(doc) == \A i \in DOMAIN doc.vectors : Numeric(doc.vectors[i])

\* what n upserts and n appends in document order leave behind
LoadedOnce ==
    /\ iss_epochs' = iss_epochs \o FeedEpochSeq(feed)
    /\ DOMAIN iss_data' = DOMAIN iss_data \cup EpochsOf(feed)
    /\ \A e \in EpochsOf(feed) : iss_data'[e] = Mapping(LastVectorFor(feed, e))
    /\ \A e \in DOMAIN iss_data \ EpochsOf(feed) : iss_data'[e] = iss_data[e]

\* C11: the index is append-only (what it held stays a prefix of what it
\* holds), a successful load of a feed of n state vectors upserts its n
\* records and appends its n epochs in document order without deduplication,
\* and k loads of one feed leave k*n entries.
C11_IndexAppendOnly ==
    /\ [][ /\ IsPrefix(iss_epochs, iss_epochs')
           /\ (last'.op = "read_data" /\ last'.ret.kind = "none") => LoadedOnce ]_vars
    /\ [](AllNumeric(feed)
            => \E k \in 0..MaxIndex : iss_epochs = Repeat(FeedEpochSeq(feed), k))

\* the second load of a feed of two state vectors
C11_Witness ==
    /\ last.op = "read_data" /\ last.ret.kind = "none"
    /\ Len(feed.vectors) = 2
    /\ Len(iss_epochs) = 4
    /\ iss_epochs = FeedEpochSeq(feed) \o FeedEpochSeq(feed)

\* ------------------------------------------------------------------- C13
\* C13: a GET /epochs request answered 400 for its pagination parameters is
\* rejected before the loader runs: the feed is not fetched (no exception of
\* a fetch is met, whatever the state of the upstream) and the records and
\* the index are left as they were.
C13_RejectedBeforeLoad ==
    [][ (last'.op = "GET /epochs" /\ last'.resp.status = 400)
        => /\ iss_data' = iss_data
           /\ iss_epochs' = iss_epochs
           /\ last'.ret = None_ ]_vars

\* a rejected request while the feed holds state vectors that no load has
\* stored yet
C13_Witness ==
    /\ last.op = "GET /epochs"
    /\ last.resp.status = 400
    /\ LoadSucceeds(feed) /\ Len(feed.vectors) > 0
    /\ Len(iss_epochs) = 0

\* ------------------------------------------------------------------- C12
\* C12: in every state, also in the middle of a load, after a load that
\* failed part-way and with loads interleaved, every epoch in iss_epochs has
\* a record under iss_data:{epoch}; a lookup of an indexed epoch is never
\* not-found.
C12_IndexedEpochsHaveRecords ==
    /\ \A i \in DOMAIN iss_epochs : DOMAIN hgetall(iss_data, iss_epochs[i]) # {}
    /\ ( /\ last.op = "get_state_vector_epoch"
         /\ \E i \in DOMAIN iss_epochs : iss_epochs[i] = last.args.epoch )
       => /\ last.ret.kind = "ok"
          /\ last.ret.val.epoch = last.args.epoch

\* two loads are both between the hset and the rpush of a state vector, the
\* index holds epochs already and one record is written but not yet indexed
C12_Witness ==
    /\ \A p \in Loaders : loads[p].pc = "rpush"
    /\ Len(iss_epochs) > 0
    /\ \E e \in DOMAIN iss_data : \A i \in DOMAIN iss_epochs : iss_epochs[i] # e
====
